---- MODULE Spec2Model ----
(***************************************************************************)
(* A model of mkfs.vmufat (src/mkfs.vmufat.c): the geometry planner, the   *)
(* root-block writer, the FAT writer, the user-area zeroer, the bad-block  *)
(* marker and main's pipeline over them.                                   *)
(*                                                                         *)
(* Numbers.  A C int or unsigned int is held as its 32-bit pattern read as *)
(* a two's-complement number in -2^31 .. 2^31-1 (so 0xFFFFFFFF is -1); an  *)
(* unsigned comparison, shift or division of such a pattern is spelled out *)
(* below (ULt, Shr9, UDiv, ...).  A disk word is the 16-bit little-endian  *)
(* value of two consecutive octets of a sector.                            *)
(***************************************************************************)
EXTENDS Integers, Sequences, FiniteSets, TLC

\* ------------------------------------------------------------------ bounds
\* Devices of the full pipeline have 2^2 .. 2^MaxLog2V sectors.
MaxLog2V == 10
\* Devices of the wide pipeline have 2^8 .. 2^(8+WideSpan) sectors.
WideSpan == 9
\* Devices of the planner-only specification reach 2^(22+PlanSpan) sectors.
PlanSpan == 2
\* A bad-block list file or the set of unreadable sectors has at most
\* MaxBadLen entries.
MaxBadLen == 2
\* An I/O failure hits one of the first MaxFailAt I/O calls of a step, or none.
MaxFailAt == 2

\* --------------------------------------------------------- program constants
BLOCKSIZE == 512
BLOCKSHIFT == 9
\* FAT cell "free" (0xFFFC) and "end of chain / bad / reserved" (0xFFFA).
FAT_FREE == 65532
FAT_END == 65530
\* The signature octet 0x55 of the root block.
SIGNATURE == 85
\* Directory share: the remainder is divided 16:1, i.e. by 17.
DIRRATIO == 17

\* ------------------------------------------------------- 32-bit arithmetic
\* The pattern 0x80000000.
MinInt32 == -2147483647 - 1

\* t + 2^31 for a pattern t < 0: the low 31 bits of t.
Low31(t) == (t + 2147483647) + 1

\* a < b as unsigned ints.
ULt(a, b) == IF (a < 0) = (b < 0) THEN a < b ELSE b < 0

\* a > b, a >= b, a <= b as unsigned ints.
UGt(a, b) == ULt(b, a)
UGe(a, b) == ~ULt(a, b)
ULe(a, b) == ~ULt(b, a)

\* x >> 1 and x >> 9 on an unsigned int.
Shr1(t) == IF t >= 0 THEN t \div 2 ELSE Low31(t) \div 2 + 1073741824
Shr9(t) == IF t >= 0 THEN t \div 512 ELSE Low31(t) \div 512 + 4194304

\* x << 9 on an unsigned int: the low 23 bits of x move up, the rest is lost.
Shl9(t) ==
  LET m == t % 8388608
  IN  IF m < 4194304 THEN m * 512 ELSE (m - 4194304) * 512 + MinInt32

\* x / d on an unsigned int, 0 < d < 2^31.
UDiv(t, d) ==
  IF t >= 0 THEN t \div d
  ELSE (2147483647 \div d) + (Low31(t) \div d)
       + (((2147483647 % d) + (Low31(t) % d) + 1) \div d)

\* a / b on ints: C division truncates toward zero.
CDiv(a, b) == IF a >= 0 THEN a \div b ELSE -((-a) \div b)

\* The value a uint16_t keeps of x.
U16(x) == x % 65536

\* 2^n.
RECURSIVE Pow2(_)
Pow2(n) == IF n = 0 THEN 1 ELSE 2 * Pow2(n - 1)

\* ------------------------------------------------------------------ state
VARIABLES
  pc,           \* main's position: the step it runs next
  error,        \* main's exit status
  devsize,      \* st_size of the device, [sectors, rem]: sectors*512 + rem octets
  blocknum,     \* the requested block count (0: none)
  scanbadblocks,\* -c was given
  useblocklist, \* -l was given
  listfile,     \* the file of -l: [nums: the numbers it holds, ok: it parses to its end]
  unreadable,   \* the sectors of the device a read fails on
  now,          \* the UTC time the clock gives, as gmtime breaks it down
  lstbadblocks, \* main's bad-block list
  params,       \* main's struct vmuparam
  disk,         \* the device: sector -> image
  ran           \* the calls main has made so far, in order: [step, ok]

vars == <<pc, error, devsize, blocknum, scanbadblocks, useblocklist, listfile,
          unreadable, now, lstbadblocks, params, disk, ran>>

\* ----------------------------------------------------------------- planner
\* _round_down's loop from y: halve y while y > x (unsigned).
RECURSIVE RoundLoop(_, _)
RoundLoop(y, x) == IF UGt(y, x) THEN RoundLoop(Shr1(y), x) ELSE y

\* _round_down(x).
RoundDown(x) == RoundLoop(MinInt32, x)

\* Geometry with the directory share of the other revision: a ninth.
GeometryNinth(sectors) ==
  LET size      == Shl9(RoundDown(sectors))
      rootblock == Shr9(size) - 1
      fatstart  == rootblock - 1
      fatsize   == Shr9(2 * Shr9(size))
      dirstart  == fatstart - fatsize
      dirsize   == UDiv(Shr9(size) - (1 + fatsize), 9)
  IN  [size |-> size, rootblock |-> rootblock, fatstart |-> fatstart,
       fatsize |-> fatsize, dirstart |-> dirstart, dirsize |-> dirsize]

\* The struct vmuparam calculate_vmuparams fills from the sector count it is
\* handed (size >> BLOCKSHIFT, converted to unsigned int).
Geometry(sectors) ==
  LET size      == Shl9(RoundDown(sectors))
      rootblock == Shr9(size) - 1
      fatstart  == rootblock - 1
      fatsize   == Shr9(2 * Shr9(size))
      dirstart  == fatstart - fatsize
      dirsize   == UDiv(Shr9(size) - (1 + fatsize), DIRRATIO)
  IN  [size |-> size, rootblock |-> rootblock, fatstart |-> fatstart,
       fatsize |-> fatsize, dirstart |-> dirstart, dirsize |-> dirsize]

\* calculate_vmuparams's checks of the device size against the request.
TooSmall(dev, n) == dev.sectors < 4 \/ (n > 0 /\ n < 4)
TooSmallForRequest(dev, n) == dev.sectors < n

\* The sector count the planner rounds: the request when there is one.
EffectiveSectors(dev, n) == IF n # 0 THEN n ELSE dev.sectors

\* main's struct vmuparam before calculate_vmuparams has filled it.
NoParams ==
  [size |-> 0, rootblock |-> 0, fatstart |-> 0, fatsize |-> 0,
   dirstart |-> 0, dirsize |-> 0]

\* ------------------------------------------------------------ sector images
\* A 512-octet buffer or sector as 256 little-endian words: word s is at[s]
\* where at is defined and fill elsewhere.
Uniform(w) == [fill |-> w, at |-> <<>>]

\* Word s of an image.
Word(sec, s) == IF s \in DOMAIN sec.at THEN sec.at[s] ELSE sec.fill

\* Octet n of an image: the low octet of a word comes first.
ByteAt(sec, n) ==
  IF n % 2 = 0 THEN Word(sec, n \div 2) % 256 ELSE Word(sec, n \div 2) \div 256

\* buf[s] = __cpu_to_le16(v) through a uint16_t pointer.
Store(sec, s, v) ==
  [fill |-> sec.fill,
   at   |-> [x \in (DOMAIN sec.at) \cup {s} |-> IF x = s THEN U16(v) ELSE sec.at[x]]]

\* The word two octets lo, hi make on disk.
LE16(lo, hi) == lo + 256 * hi

\* The device is the function from its sectors 0 .. sectors-1 to their images,
\* held as three layers: the sectors written one by one (written: sector ->
\* image), over a prefix 0 .. zeroed-1 of all-zero sectors, over the content the
\* device came with (every word 0xE5E5).
\* A pwrite or pread of one sector at sector index s reaches the device.
OnDevice(d, s) == s >= 0 /\ s < d.sectors

\* The image of sector s of the device.
Sector(d, s) ==
  IF s \in DOMAIN d.written THEN d.written[s]
  ELSE IF s < d.zeroed THEN Uniform(0)
  ELSE Uniform(58853)

\* The device after the sectors of w (sector -> image) are written to it.
Overlay(d, w) == [d EXCEPT !.written = w @@ @]

\* The device after the sectors 0 .. n-1 are written with zeros.
ZeroPrefix(d, n) ==
  [d EXCEPT !.zeroed  = IF n > @ THEN n ELSE @,
            !.written = [s \in {x \in DOMAIN @ : x >= n} |-> @[s]]]

\* ------------------------------------------------------------- root block
\* _i2bcd(i), as the octet its char result stores.
I2bcd(i) == (((i \div 10) * 16) + (i % 10)) % 256

\* The eight octets _fill_root_block stores at 0x30..0x37.
Timestamp(tm) ==
  <<I2bcd(19 + tm.year \div 100),
    I2bcd(tm.year - (tm.year \div 100) * 100),
    I2bcd(tm.mon + 1),
    I2bcd(tm.mday),
    I2bcd(tm.hour),
    I2bcd(tm.min),
    I2bcd(tm.sec),
    I2bcd(tm.wday)>>

\* The buffer mark_root_block writes: memset to zero, then _fill_root_block's
\* octets 0..15, octets 0x30..0x37 and words 0x20, 0x22..0x27.
RootBlock(param, tm) ==
  LET ts == Timestamp(tm)
  IN  [fill |-> 0,
       at   |-> [w \in (0..7) \cup (24..27) \cup {32} \cup (34..39) |->
                  IF w < 8 THEN LE16(SIGNATURE, SIGNATURE)
                  ELSE IF w < 28 THEN LE16(ts[2 * (w - 24) + 1], ts[2 * (w - 24) + 2])
                  ELSE IF w = 32 THEN U16(param.rootblock)
                  ELSE IF w = 34 THEN U16(param.rootblock)
                  ELSE IF w = 35 THEN U16(param.fatstart)
                  ELSE IF w = 36 THEN U16(param.fatsize)
                  ELSE IF w = 37 THEN U16(param.dirstart)
                  ELSE IF w = 38 THEN U16(param.dirsize)
                  ELSE U16(param.dirsize * 8)]]

\* The sector mark_root_block's pwrite addresses: rootblock * BLOCKSIZE is an
\* unsigned int product.
RootSector(param) == Shr9(Shl9(param.rootblock))

\* mark_root_block: f = 1 makes its pwrite fail, mem = FALSE its malloc.
MarkRootBlock(d, param, tm, f, mem) ==
  IF ~mem \/ f = 1 \/ ~OnDevice(d, RootSector(param))
  THEN [disk |-> d, error |-> -1]
  ELSE [disk  |-> Overlay(d, RootSector(param) :> RootBlock(param, tm)),
        error |-> 0]

\* -------------------------------------------------------------------- FAT
\* The number of final FAT sectors mark_fat recomputes.
FatStartCount(param) == UDiv(2 * (param.fatsize + param.dirsize), BLOCKSIZE) + 1

\* (k + i) / 2 for sector j and octet offset i: the block index of a slot.
FatPos(param, j, i) == CDiv((j - param.dirstart - 1) * BLOCKSIZE + i, 2)

\* What the loop body leaves in a slot for block index pos, given what it held.
FatSlot(param, pos, old) ==
  IF UGt(pos, 1 + param.fatstart - param.fatsize) THEN U16(pos - 1)
  ELSE IF pos = 1 + param.fatstart - param.fatsize THEN FAT_END
  ELSE IF UGt(pos, 1 + param.dirstart - param.dirsize) THEN U16(pos - 1)
  ELSE IF pos = 1 + param.dirstart - param.dirsize THEN FAT_END
  ELSE old

\* The passes of the loop up to sector j that store into slot s.
FatPasses(param, j, s) ==
  {k \in (param.rootblock - FatStartCount(param))..j :
     FatSlot(param, FatPos(param, k, 2 * s), -1) # -1}

\* The buffer after the pass for sector j, from a buffer that held `fill` in
\* every word before the first pass: the buffer is carried from pass to pass,
\* so a slot holds what the last pass that stored into it left there.
FatBufferFrom(fill, param, j) ==
  [fill |-> fill,
   at   |-> [s \in 0..(BLOCKSIZE \div 2 - 1) |->
              LET passes == FatPasses(param, j, s)
              IN  IF passes = {} THEN fill
                  ELSE FatSlot(param,
                               FatPos(param, CHOOSE k \in passes : \A m \in passes : m <= k, 2 * s),
                               fill)]]

\* FatBuffer with the buffer left as malloc'ed zero memory: the fill loop of
\* lines 207-208 is missing.
FatBufferUnfilled(param, j) == FatBufferFrom(0, param, j)

\* The buffer mark_fat holds after the pass for sector j: it is filled with
\* 0xFFFC once, before the first pass.
FatBuffer(param, j) == FatBufferFrom(FAT_FREE, param, j)

\* The pwrites of mark_fat, numbered in the order it issues them: the prelude
\* (fatstart-1 down to fatstart-fatsize+1, when fatsize > 1), the recomputed
\* sectors (when start > 1), the last sector with the root block's cell.
FatPrelude(param) == IF param.fatsize > 1 THEN param.fatsize - 1 ELSE 0
FatLoopWrites(param) == IF FatStartCount(param) > 1 THEN FatStartCount(param) ELSE 0
FatWrites(param) == FatPrelude(param) + FatLoopWrites(param) + 1

FatWriteSector(param, n) ==
  IF n <= FatPrelude(param) THEN param.fatstart - n
  ELSE IF n < FatWrites(param)
       THEN param.rootblock - FatStartCount(param) + (n - FatPrelude(param) - 1)
       ELSE param.rootblock - 1

FatWriteBuffer(param, n) ==
  IF n <= FatPrelude(param) THEN Uniform(FAT_FREE)
  ELSE IF n < FatWrites(param) THEN FatBuffer(param, FatWriteSector(param, n))
       ELSE Store(FatBuffer(param, param.rootblock - 1), BLOCKSIZE \div 2 - 1, FAT_END)

\* The number of the last of the first done pwrites that went to sector s; 0
\* when none did.
FatLastWrite(param, s, done) ==
  LET last  == FatWrites(param)
      first == param.rootblock - FatStartCount(param)
      loop  == FatPrelude(param) + 1 + (s - first)
      pre   == param.fatstart - s
  IN  IF done >= last /\ s = param.rootblock - 1 THEN last
      ELSE IF FatLoopWrites(param) > 0 /\ s >= first /\ s < param.rootblock
              /\ loop <= done THEN loop
      ELSE IF pre >= 1 /\ pre <= FatPrelude(param) /\ pre <= done THEN pre
      ELSE 0

\* The sectors the first done pwrites of mark_fat leave written, each with
\* the buffer of the last write to it.
FatWritten(param, done) ==
  [s \in {FatWriteSector(param, n) : n \in 1..done} |->
     FatWriteBuffer(param, FatLastWrite(param, s, done))]

\* The number of pwrites of mark_fat that succeed: f = n makes the n-th fail,
\* mem = FALSE the malloc before them; a pwrite off the device fails too.
FatDone(d, param, f, mem) ==
  LET bad == {n \in 1..FatWrites(param) :
                n = f \/ ~OnDevice(d, FatWriteSector(param, n))}
  IN  IF ~mem THEN 0
      ELSE IF bad = {} THEN FatWrites(param)
      ELSE (CHOOSE n \in bad : \A m \in bad : n <= m) - 1

\* mark_fat: the writes before the failing one stay on the device.
MarkFat(d, param, f, mem) ==
  [disk  |-> Overlay(d, FatWritten(param, FatDone(d, param, f, mem))),
   error |-> IF FatDone(d, param, f, mem) = FatWrites(param) THEN 0 ELSE -1]

\* -------------------------------------------------------------- zero_blocks
\* zero_blocks: writes zero sectors at 0 .. dirstart in ascending order;
\* f = n makes its n-th pwrite fail, mem = FALSE its malloc.
ZeroBlocks(d, param, f, mem) ==
  LET count == param.dirstart + 1
      onDev == IF count <= d.sectors THEN count ELSE d.sectors
      done  == IF ~mem THEN 0
               ELSE IF f >= 1 /\ f <= onDev THEN f - 1 ELSE onDev
  IN  [disk  |-> ZeroPrefix(d, done),
       error |-> IF mem /\ done = count THEN 0 ELSE -1]

\* --------------------------------------------------------- bad-block marker
\* BadFatBlock without the step past dirstart: the FAT taken to begin at
\* dirstart.
BadFatBlockAtDirstart(param, badblock) == CDiv(2 * badblock, BLOCKSIZE) + param.dirstart

\* The FAT sector and the slot _mark_block_bad patches for a bad block.
BadFatBlock(param, badblock) == CDiv(2 * badblock, BLOCKSIZE) + param.dirstart + 1
BadSlot(badblock) == badblock % (BLOCKSIZE \div 2)

\* _mark_block_bad: its pread is I/O call io + 1 of the marking step and its
\* pwrite call io + 2; call f fails (0: none), mem = FALSE makes malloc fail.
MarkBlockBad(d, badblock, param, f, mem, io) ==
  LET fatblock == BadFatBlock(param, badblock)
  IN  IF ~mem \/ f = io + 1 \/ f = io + 2 \/ ~OnDevice(d, fatblock)
      THEN [disk |-> d, error |-> -1]
      ELSE [disk  |-> Overlay(d, fatblock :> Store(Sector(d, fatblock),
                                                     BadSlot(badblock), FAT_END)),
            error |-> 0]

\* mark_bad_blocks's tests on a list entry.
BadSkipped(param, n) == n < 0 \/ UGt(n, param.rootblock)

\* BadIsSystem with > for >=: dirstart itself passes the guard.
BadIsSystemAboveDirstart(param, n) == UGt(n, param.dirstart) /\ ULe(n, param.rootblock)

BadIsSystem(param, n) == UGe(n, param.dirstart) /\ ULe(n, param.rootblock)

\* mark_bad_blocks's loop over the list from entry `list`, io I/O calls made.
RECURSIVE MarkBadLoop(_, _, _, _, _, _)
MarkBadLoop(d, list, param, f, mem, io) ==
  IF list = <<>> THEN [disk |-> d, error |-> 0]
  ELSE IF BadSkipped(param, Head(list))
       THEN MarkBadLoop(d, Tail(list), param, f, mem, io)
  ELSE IF BadIsSystem(param, Head(list)) THEN [disk |-> d, error |-> -1]
  ELSE LET r == MarkBlockBad(d, Head(list), param, f, mem, io)
       IN  IF r.error < 0 THEN [disk |-> r.disk, error |-> -1]
           ELSE MarkBadLoop(r.disk, Tail(list), param, f, mem, io + 2)

\* mark_bad_blocks.
MarkBadBlocks(d, list, param, f, mem) == MarkBadLoop(d, list, param, f, mem, 0)

\* ---------------------------------------------------- bad-block collectors
\* The ascending sequence of a finite set of numbers.
RECURSIVE Ascending(_)
Ascending(S) ==
  IF S = {} THEN <<>>
  ELSE LET m == CHOOSE x \in S : \A y \in S : x <= y
       IN  <<m>> \o Ascending(S \ {m})

\* scanforbad: every sector of the raw device whose read fails, in ascending
\* order; mem = FALSE makes malloc fail, env = FALSE fstat.
ScanForBad(dev, unread, mem, env) ==
  IF ~mem \/ ~env THEN [list |-> <<>>, error |-> -1]
  ELSE [list |-> Ascending({i \in unread : i >= 0 /\ i < dev.sectors}), error |-> 0]

\* readforbad: the numbers of the file in file order; the file must open
\* (env), hold a number wherever the loop reads one (so an empty file fails)
\* and parse to its end.
ReadForBad(file, mem, env) ==
  IF ~env THEN [list |-> <<>>, error |-> -1]
  ELSE IF ~mem THEN [list |-> <<>>, error |-> -1]
  ELSE [list  |-> file.nums,
        error |-> IF file.ok /\ file.nums # <<>> THEN 0 ELSE -1]

\* ------------------------------------------------------------------ actions
\* The inputs the environment gives a step: the I/O call that fails (0: none)
\* and whether allocation and the stat/open of the step succeed.
FailChoices == 0..MaxFailAt

\* main, lines 559-566: the collector -c or -l selects, -c first.
CollectBadBlocks ==
  /\ pc = "collect"
  /\ \E mem \in BOOLEAN, env \in BOOLEAN :
       LET called == scanbadblocks > 0 \/ useblocklist > 0
           r == IF scanbadblocks > 0 THEN ScanForBad(devsize, unreadable, mem, env)
                ELSE IF useblocklist > 0 THEN ReadForBad(listfile, mem, env)
                ELSE [list |-> <<>>, error |-> 0]
       IN  /\ lstbadblocks' = r.list
           /\ ran' = IF called THEN Append(ran, [step |-> "collect", ok |-> r.error >= 0])
                     ELSE ran
           /\ pc' = IF r.error < 0 THEN "close" ELSE "plan"
  /\ UNCHANGED <<error, devsize, blocknum, scanbadblocks, useblocklist, listfile,
                 unreadable, now, params, disk>>

\* main, lines 568-569: calculate_vmuparams.
CalculateVmuparams ==
  /\ pc = "plan"
  /\ \E env \in BOOLEAN :
       LET fails == \/ ~env
                    \/ TooSmall(devsize, blocknum)
                    \/ TooSmallForRequest(devsize, blocknum)
       IN  /\ params' = IF fails THEN params
                        ELSE Geometry(EffectiveSectors(devsize, blocknum))
           /\ pc' = IF fails THEN "close" ELSE "root"
           /\ ran' = Append(ran, [step |-> "plan", ok |-> ~fails])
  /\ UNCHANGED <<error, devsize, blocknum, scanbadblocks, useblocklist, listfile,
                 unreadable, now, lstbadblocks, disk>>

\* WritingStep without the goto: main goes on to `next` whatever op returned.
WritingStepNoAbort(name, r, next) ==
  /\ disk' = r.disk
  /\ ran' = Append(ran, [step |-> name, ok |-> r.error >= 0])
  /\ pc' = next

\* A writing step of main: it runs op on the disk and goes on to `next`, or
\* to the close label when op fails.
WritingStep(name, r, next) ==
  /\ disk' = r.disk
  /\ ran' = Append(ran, [step |-> name, ok |-> r.error >= 0])
  /\ pc' = IF r.error < 0 THEN "close" ELSE next

\* main, lines 571-572: mark_root_block.
MarkRootBlockStep ==
  /\ pc = "root"
  /\ \E f \in FailChoices, mem \in BOOLEAN :
       WritingStep("root", MarkRootBlock(disk, params, now, f, mem), "fat")
  /\ UNCHANGED <<error, devsize, blocknum, scanbadblocks, useblocklist, listfile,
                 unreadable, now, lstbadblocks, params>>

\* main, lines 574-575: mark_fat.
MarkFatStep ==
  /\ pc = "fat"
  /\ \E f \in FailChoices, mem \in BOOLEAN :
       WritingStep("fat", MarkFat(disk, params, f, mem), "zero")
  /\ UNCHANGED <<error, devsize, blocknum, scanbadblocks, useblocklist, listfile,
                 unreadable, now, lstbadblocks, params>>

\* main, lines 577-578: zero_blocks.
ZeroBlocksStep ==
  /\ pc = "zero"
  /\ \E f \in FailChoices, mem \in BOOLEAN :
       WritingStep("zero", ZeroBlocks(disk, params, f, mem), "bad")
  /\ UNCHANGED <<error, devsize, blocknum, scanbadblocks, useblocklist, listfile,
                 unreadable, now, lstbadblocks, params>>

\* main, lines 580-586: mark_bad_blocks, and error = 0 when it succeeds.
MarkBadBlocksStep ==
  /\ pc = "bad"
  /\ \E f \in FailChoices, mem \in BOOLEAN :
       LET r == MarkBadBlocks(disk, lstbadblocks, params, f, mem)
       IN  /\ WritingStep("bad", r, "close")
           /\ error' = IF r.error < 0 THEN error ELSE 0
  /\ UNCHANGED <<devsize, blocknum, scanbadblocks, useblocklist, listfile,
                 unreadable, now, lstbadblocks, params>>

\* main, lines 587-592: close the device, free the list, return error.  The
\* list's nodes are freed and never read again; the variable keeps the list.
Close ==
  /\ pc = "close"
  /\ pc' = "exit"
  /\ ran' = Append(ran, [step |-> "close", ok |-> TRUE])
  /\ UNCHANGED <<error, devsize, blocknum, scanbadblocks, useblocklist, listfile,
                 unreadable, now, lstbadblocks, params, disk>>

Next ==
  \/ CollectBadBlocks
  \/ CalculateVmuparams
  \/ MarkRootBlockStep
  \/ MarkFatStep
  \/ ZeroBlocksStep
  \/ MarkBadBlocksStep
  \/ Close

\* ------------------------------------------------------------------ inputs
\* All sequences over S of length at most n.
RECURSIVE SeqsUpTo(_, _)
SeqsUpTo(S, n) ==
  IF n = 0 THEN {<<>>}
  ELSE LET shorter == SeqsUpTo(S, n - 1)
       IN  shorter \cup {Append(q, x) : q \in {p \in shorter : Len(p) = n - 1}, x \in S}

\* All subsets of S with at most n elements.
SubsetsUpTo(S, n) == {T \in SUBSET S : Cardinality(T) <= n}

\* Two clock readings, as gmtime breaks them down (tm_year counts from 1900,
\* tm_mon from 0): 2026-11-03 18:50:59, a Tuesday, and 1999-12-31 23:59:59,
\* a Friday.
Times ==
  {[year |-> 126, mon |-> 10, mday |-> 3, hour |-> 18, min |-> 50, sec |-> 59, wday |-> 2],
   [year |-> 99, mon |-> 11, mday |-> 31, hour |-> 23, min |-> 59, sec |-> 59, wday |-> 5]}

\* A device of n sectors nothing has been written to.
Blank(n) == [sectors |-> n, zeroed |-> 0, written |-> <<>>]

\* A device of n whole sectors.
Device(n) == [sectors |-> n, rem |-> 0]

\* The block numbers a bad-block list is drawn from, around the regions of the
\* device's geometry: a negative number, a user block, the last user block,
\* the first and the last system block, and the block after the device.
Candidates(dev) ==
  LET g == Geometry(dev.sectors)
  IN  {-1, 1, g.dirstart - g.dirsize, g.dirstart, g.rootblock, g.rootblock + 1}

NoFile == [nums |-> <<>>, ok |-> TRUE]

\* The command lines and environments of a device: no bad-block option (with
\* or without a requested block count), -l with a list file, -c (alone or
\* with -l) with some sectors unreadable.
Inputs(dev, lists, unreads, requests) ==
  {[blocknum |-> n, scan |-> 0, uselist |-> 0, file |-> NoFile, unread |-> {}] :
     n \in requests}
  \cup {[blocknum |-> 0, scan |-> 0, uselist |-> 1, file |-> [nums |-> l, ok |-> TRUE],
         unread |-> {}] : l \in lists}
  \cup {[blocknum |-> 0, scan |-> 0, uselist |-> 1, file |-> [nums |-> <<1>>, ok |-> FALSE],
         unread |-> {}]}
  \cup {[blocknum |-> 0, scan |-> 1, uselist |-> u, file |-> NoFile, unread |-> b] :
          u \in {0, 1}, b \in unreads}

\* The state when main has parsed its arguments and opened the device.
Start(dev, in, tm) ==
  /\ pc = "collect"
  /\ error = 1
  /\ devsize = dev
  /\ blocknum = in.blocknum
  /\ scanbadblocks = in.scan
  /\ useblocklist = in.uselist
  /\ listfile = in.file
  /\ unreadable = in.unread
  /\ now = tm
  /\ lstbadblocks = <<>>
  /\ params = NoParams
  /\ disk = Blank(dev.sectors)
  /\ ran = <<>>

\* --------------------------------------------------------- specifications
\* The full pipeline on small devices: 3 sectors (too small) and every power
\* of two from 4 to 2^MaxLog2V sectors, with bad-block lists.
MainDevices == {Device(3)} \cup {Device(Pow2(k)) : k \in 2..MaxLog2V}

Init ==
  \E dev \in MainDevices :
    \E in \in Inputs(dev, SeqsUpTo(Candidates(dev), MaxBadLen),
                     SubsetsUpTo(Candidates(dev), MaxBadLen), {0, 2, 8, 4096}) :
      Start(dev, in, CHOOSE tm \in Times : tm.year = 126)

Spec == Init /\ [][Next]_vars

\* The full pipeline on large devices, 2^8 to 2^(8+WideSpan) sectors, with at
\* most one bad block.
WideDevices == {Device(Pow2(8 + k)) : k \in 0..WideSpan}

InitWide ==
  \E dev \in WideDevices, tm \in Times :
    \E in \in Inputs(dev, {<<1>>}, {{}}, {0}) :
      Start(dev, in, tm)

SpecWide == InitWide /\ [][Next]_vars

\* The planner alone, on raw device sizes of up to 2^(22+PlanSpan) sectors
\* and a few octets more, whole or not.
PlanSectors ==
  (0..40) \cup {Pow2(k) + e : k \in 6..(22 + PlanSpan), e \in {-1, 0, 1}}

InitPlan ==
  \E n \in PlanSectors, r \in {0, 511}, req \in {0, 4} :
    /\ pc = "plan"
    /\ error = 1
    /\ devsize = [sectors |-> n, rem |-> r]
    /\ blocknum = req
    /\ scanbadblocks = 0
    /\ useblocklist = 0
    /\ listfile = NoFile
    /\ unreadable = {}
    /\ now = CHOOSE tm \in Times : tm.year = 126
    /\ lstbadblocks = <<>>
    /\ params = NoParams
    /\ disk = Blank(n)
    /\ ran = <<>>

SpecPlan == InitPlan /\ [][CalculateVmuparams]_vars

\* ------------------------------------------------------------------ claims
\* The FAT cell of block b: the word at slot b mod 256 of sector
\* dirstart + 1 + (2b)/512.
FatCell(d, param, b) ==
  Word(Sector(d, param.dirstart + 1 + (2 * b) \div 512), b % 256)

\* main called step `name`.
Ran(name) == \E i \in DOMAIN ran : ran[i].step = name

\* The format succeeded: main's exit status is 0.
Formatted == error = 0

\* The device after a format of it with no bad block, at the same time.
CleanDisk ==
  ZeroBlocks(
    MarkFat(MarkRootBlock(Blank(devsize.sectors), params, now, 0, TRUE).disk,
            params, 0, TRUE).disk,
    params, 0, TRUE).disk

\* The cells of the blocks lo .. hi form a back-chain on device d: the cell of
\* lo holds 0xFFFA and the cell of every other block the block before it.
BackChain(d, param, lo, hi) ==
  \A bi \in lo..hi :
    FatCell(d, param, bi) = IF bi = lo THEN 65530 ELSE bi - 1

\* C1: when mark_fat has completed on a geometry with fatsize >= 1, the cells
\* of the FAT region fatstart-fatsize+1 .. fatstart and of the directory
\* region dirstart-dirsize+1 .. dirstart each form a back-chain ending in
\* 0xFFFA at the region's lowest block.
C1_BackChains ==
  (pc = "zero" /\ params.fatsize >= 1) =>
    /\ BackChain(disk, params, params.fatstart - params.fatsize + 1, params.fatstart)
    /\ BackChain(disk, params, params.dirstart - params.dirsize + 1, params.dirstart)

\* C2: after a successful format with an empty bad-block list of a geometry
\* with fatsize >= 1, the cell of every block of the user area
\* 0 .. dirstart-dirsize is 0xFFFC.
C2_UserAreaFree ==
  (Formatted /\ lstbadblocks = <<>> /\ params.fatsize >= 1) =>
    \A bi \in 0..(params.dirstart - params.dirsize) :
      FatCell(disk, params, bi) = 65532

\* A successful format with an empty list of a device whose FAT writer
\* recomputes more than one final sector after a prelude.
C2_Witness ==
  /\ pc = "exit"
  /\ Formatted
  /\ lstbadblocks = <<>>
  /\ params.fatsize > 1
  /\ FatStartCount(params) > 1

\* C3: after a successful format the FAT cell of block rootblock is 0xFFFA.
C3_RootTerminator ==
  Formatted => FatCell(disk, params, params.rootblock) = 65530

\* The bad-block list's entries.
BadEntries == {lstbadblocks[i] : i \in DOMAIN lstbadblocks}

\* C4 as stated: after a successful format the cell of every list entry b with
\* 0 <= b < dirstart-dirsize is 0xFFFA, and no other cell differs from the
\* clean format's.
C4_MarkedBelowDirectory ==
  Formatted =>
    LET clean  == CleanDisk
        marked == {b \in BadEntries : b >= 0 /\ b < params.dirstart - params.dirsize}
    IN  \A c \in 0..params.rootblock :
          FatCell(disk, params, c) =
            IF c \in marked THEN 65530 ELSE FatCell(clean, params, c)

\* C4, amended: after a successful format the cell of every list entry b with
\* 0 <= b < dirstart is 0xFFFA, and no other cell differs from the clean
\* format's; so the result depends only on which blocks the list names, not on
\* how often.
C4_MarkedBelowDirstart ==
  Formatted =>
    LET clean  == CleanDisk
        marked == {b \in BadEntries : b >= 0 /\ b < params.dirstart}
    IN  \A c \in 0..params.rootblock :
          FatCell(disk, params, c) =
            IF c \in marked THEN 65530 ELSE FatCell(clean, params, c)

\* A successful format of a device with a FAT whose list names the last user
\* block twice.
C4_Witness ==
  /\ pc = "exit"
  /\ Formatted
  /\ params.fatsize >= 1
  /\ lstbadblocks = <<params.dirstart - params.dirsize, params.dirstart - params.dirsize>>

\* C5: a list with an entry in dirstart .. rootblock never ends in success;
\* once the marker has run, the cells of the blocks dirstart .. rootblock are
\* those of the clean format; and a list whose entries are all negative or
\* above rootblock does not fail the marker.
C5_SystemBlockGuard ==
  /\ (\E b \in BadEntries : b >= params.dirstart /\ b <= params.rootblock) => ~Formatted
  /\ Ran("bad") =>
       LET clean == CleanDisk
       IN  \A b \in params.dirstart..params.rootblock :
             FatCell(disk, params, b) = FatCell(clean, params, b)
  /\ (Ran("bad") /\ \A b \in BadEntries : b < 0 \/ b > params.rootblock) => Formatted

\* The marker has refused a list that names dirstart after an entry it skipped.
C5_Witness ==
  /\ pc = "exit"
  /\ Ran("bad")
  /\ ~Formatted
  /\ lstbadblocks = <<-1, params.dirstart>>

\* C6: after a successful format sector rootblock holds the root-block image,
\* every cell of the sectors dirstart+1 .. fatstart is what the FAT writer
\* put there or the 0xFFFA of a listed bad block, and the sectors
\* 0 .. dirstart are all zero.
C6_DiskState ==
  Formatted =>
    /\ \A w \in 0..255 :
         Word(Sector(disk, params.rootblock), w) = Word(RootBlock(params, now), w)
    /\ LET fat == MarkFat(Blank(devsize.sectors), params, 0, TRUE).disk
       IN  \A s \in (params.dirstart + 1)..params.fatstart : \A w \in 0..255 :
             \/ Word(Sector(disk, s), w) = Word(Sector(fat, s), w)
             \/ /\ Word(Sector(disk, s), w) = 65530
                /\ (s - params.dirstart - 1) * 256 + w \in BadEntries
    /\ \A s \in 0..params.dirstart : \A w \in 0..255 : Word(Sector(disk, s), w) = 0

\* The binary-coded decimal octet of v.
Bcd(v) == ((v \div 10) * 16) + (v % 10)

\* C7: the sector mark_root_block has written at rootblock holds 0x55 in
\* octets 0x00..0x0F, the BCD century, year, month, day, hour, minute, second
\* and weekday in octets 0x30..0x37, rootblock, rootblock, fatstart, fatsize,
\* dirstart, dirsize and dirsize*8 in words 0x20, 0x22..0x27, and zero in every
\* other octet.
C7_RootBlockLayout ==
  pc = "fat" =>
    LET sec == Sector(disk, params.rootblock)
    IN  /\ \A n \in 0..15 : ByteAt(sec, n) = 85
        /\ ByteAt(sec, 48) = Bcd(19 + now.year \div 100)
        /\ ByteAt(sec, 49) = Bcd(now.year % 100)
        /\ ByteAt(sec, 50) = Bcd(now.mon + 1)
        /\ ByteAt(sec, 51) = Bcd(now.mday)
        /\ ByteAt(sec, 52) = Bcd(now.hour)
        /\ ByteAt(sec, 53) = Bcd(now.min)
        /\ ByteAt(sec, 54) = Bcd(now.sec)
        /\ ByteAt(sec, 55) = Bcd(now.wday)
        /\ Word(sec, 32) = params.rootblock
        /\ Word(sec, 34) = params.rootblock
        /\ Word(sec, 35) = params.fatstart
        /\ Word(sec, 36) = params.fatsize
        /\ Word(sec, 37) = params.dirstart
        /\ Word(sec, 38) = params.dirsize
        /\ Word(sec, 39) = params.dirsize * 8
        /\ \A n \in (16..47) \cup (56..63) \cup {66, 67} \cup (80..511) :
             ByteAt(sec, n) = 0

\* A 1024-sector device formatted with no requested block count, once its root
\* block is written.
S2_Device ==
  /\ devsize = [sectors |-> 1024, rem |-> 0]
  /\ blocknum = 0
  /\ pc = "fat"

\* C8 as stated: the 1024-sector device gets fatsize 4, dirstart 1019 and
\* dirsize 60, and 480 at word 0x27 of its root block.
C8_Scenario2 ==
  S2_Device =>
    /\ params.fatsize = 4
    /\ params.dirstart = 1019
    /\ params.dirsize = 60
    /\ Word(Sector(disk, params.rootblock), 39) = 480

\* C8, amended: the 1024-sector device gets fatsize 4, dirstart 1018 and
\* dirsize 59, and 472 at word 0x27 of its root block.
C8_Scenario2Amended ==
  S2_Device =>
    /\ params.fatsize = 4
    /\ params.dirstart = 1018
    /\ params.dirsize = 59
    /\ Word(Sector(disk, params.rootblock), 39) = 472

\* The root block of the 1024-sector device is on the disk.
C8_Witness ==
  /\ S2_Device
  /\ params.rootblock \in DOMAIN disk.written

\* The largest power of two that is at most n, n >= 1.
LargestPow2(n) == CHOOSE p \in {Pow2(k) : k \in 0..30} : p <= n /\ n - p < p

\* C9: when the planner has returned a geometry for a raw size of at least
\* 4*512 octets and no requested block count, size is a multiple of 512 and
\* size/512 is the largest power of two that is at most the device's whole
\* sectors.
C9_PowerOfTwoRounding ==
  (pc = "root" /\ blocknum = 0 /\ devsize.sectors >= 4) =>
    /\ params.size % 512 = 0
    /\ Shr9(params.size) = LargestPow2(devsize.sectors)

\* a is a prefix of b.
IsPrefix(a, b) == Len(a) <= Len(b) /\ \A i \in DOMAIN a : a[i] = b[i]

\* main's calls run in the given order: the calls before the close are a
\* prefix of it, a call that failed is the last before the close, the close
\* is the last call and the exit follows it, and the exit status is 0 exactly
\* when every step of the order ran and succeeded.
RunsInOrder(order) ==
  LET body == SelectSeq(ran, LAMBDA e : e.step # "close")
  IN  /\ IsPrefix([i \in DOMAIN body |-> body[i].step], order)
      /\ \A i \in DOMAIN body : i < Len(body) => body[i].ok
      /\ \A i \in DOMAIN ran : ran[i].step = "close" => (i = Len(ran) /\ pc = "exit")
      /\ pc = "exit" => (ran # <<>> /\ ran[Len(ran)].step = "close")
      /\ Formatted <=> (Len(body) = Len(order) /\ \A i \in DOMAIN body : body[i].ok)

\* -c or -l was given.
Collects == scanbadblocks > 0 \/ useblocklist > 0

\* C10 as stated: the order is plan, collect (with -c or -l), root block, FAT,
\* zero, mark; a failure ends the run at the close with a non-zero status; and
\* the close leaves the device as the steps left it.
C10_PlanThenCollect ==
  [][/\ RunsInOrder(IF Collects THEN <<"plan", "collect", "root", "fat", "zero", "bad">>
                    ELSE <<"plan", "root", "fat", "zero", "bad">>)'
     /\ pc = "close" => disk' = disk]_vars

\* C10, amended: the order is collect (with -c or -l), plan, root block, FAT,
\* zero, mark; a failure ends the run at the close with a non-zero status; and
\* the close leaves the device as the steps left it.
C10_CollectThenPlan ==
  [][/\ RunsInOrder(IF Collects THEN <<"collect", "plan", "root", "fat", "zero", "bad">>
                    ELSE <<"plan", "root", "fat", "zero", "bad">>)'
     /\ pc = "close" => disk' = disk]_vars

\* A run with -c or -l whose FAT writer failed after the root block was
\* written: it has closed the device with the root block still on it.
C10_Witness ==
  /\ pc = "exit"
  /\ Collects
  /\ ~Formatted
  /\ Len(ran) = 5
  /\ ran[1].step = "collect"
  /\ ran[4].step = "fat"
  /\ ~ran[4].ok
  /\ params.rootblock \in DOMAIN disk.written

====
